---- MODULE Spec2Model ----
(***************************************************************************)
(* openmcp: the API-key manager (src/openmcp/core/auth.py) and the         *)
(* browser session service (src/openmcp/services/browseruse_service.py),   *)
(* and the REST router in front of them (src/openmcp/api/routes.py).       *)
(*                                                                         *)
(* Tokens and session ids are generated values (secrets.token_urlsafe,     *)
(* uuid4); they are modelled as fresh integers drawn from a counter.       *)
(* Timestamps are integers counted in days.                                *)
(***************************************************************************)
EXTENDS Integers, FiniteSets, Sequences, TLC

\* ---------------------------------------------------------------- bounds
MaxKeys == 2
MaxTime == 2
MaxDays == 1
MaxIds == 3
NumTasks == 2

\* ------------------------------------------------------------- constants
\* AuthManager.__init__ mints the default key with expires_days=365.
DefaultExpiresDays == 365
\* BrowseruseService.__init__: config.get("max_sessions", 5); the model runs
\* the service with the configuration max_sessions = 2.
max_sessions == 2

Services == {"browseruse", "web_search"}
NoExpiry == -1
NoToken == 0
NoSid == 0

VARIABLES
    api_keys,     \* AuthManager.api_keys: token -> APIKey
    next_key,     \* next token secrets.token_urlsafe will produce
    now,          \* datetime.utcnow(), in days
    snapshot,     \* tokens of the dict returned by the last list_api_keys
    revoked,      \* tokens on which revoke_api_key returned True (history)
    auth_last,    \* the last AuthManager call made directly, and what it returned
    sessions,     \* BrowseruseService.sessions: session id -> BrowserSession
    next_sid,     \* next session id uuid4 will produce
    is_running,   \* BaseMCPService.is_running
    pc,           \* position of each caller task inside _create_session
    running,      \* the task the event loop is executing (0: loop is free)
    call_last,    \* the last call_tool made directly, and its result mapping
    browsers,     \* ids of the sessions whose browser process is running
    allow_localhost, \* auth_manager.config.allow_localhost
    http_last,    \* the response of the router, when the last step was a request
    jwt_last,     \* the JWT helper call of the last step, and what it returned
    owner,        \* session id -> token of the key whose request created it
    audit         \* whether this run keeps the record `owner`

auth_vars == <<api_keys, next_key, now, snapshot, revoked, auth_last>>
svc_vars == <<sessions, next_sid, is_running, pc, running, call_last, browsers>>
rt_vars == <<allow_localhost, http_last, jwt_last, owner, audit>>
vars == <<api_keys, next_key, now, snapshot, revoked, auth_last,
          sessions, next_sid, is_running, pc, running, call_last, browsers,
          allow_localhost, http_last, jwt_last, owner, audit>>

\* A response of the router.  status is the HTTP status and detail the
\* detail of an HTTPException; success and error are the fields of
\* ToolCallResponse; invoked tells whether service.call_tool was called;
\* key is the token of the key the request acted as; peer is the address
\* the request came from.
Response(route, status, detail, success, error, invoked, key) ==
    [route |-> route, status |-> status, detail |-> detail, success |-> success,
     error |-> error, invoked |-> invoked, key |-> key, peer |-> ""]

\* A record of one call of create_access_token or verify_token: the payload
\* or token it was given, the status (401 when it raised HTTPException) and
\* the token or payload it returned.
JwtCall(op, arg, status, value) ==
    [op |-> op, arg |-> arg, status |-> status, value |-> value]
NoJwtCall == JwtCall("none", "", 200, "")

\* A step that is not a request to the router.
NoResponse == Response("none", 0, "", FALSE, "", FALSE, NoToken)
RouterIdle ==
    /\ http_last' = NoResponse
    /\ jwt_last' = NoJwtCall
    /\ UNCHANGED <<allow_localhost, owner, audit>>

\* ====================================================================
\* AuthManager
\* ====================================================================

EmptyMap == [s \in {} |-> TRUE]

\* Permission maps a caller may pass (Dict[str, bool]).
PermMaps ==
    { EmptyMap,
      [s \in {"browseruse"} |-> TRUE],
      [s \in {"web_search"} |-> TRUE],
      [s \in Services |-> s = "browseruse"] }

\* The optional arguments of create_api_key: given = FALSE is Python's None.
PermArgs == {[given |-> FALSE, map |-> EmptyMap]}
            \cup {[given |-> TRUE, map |-> m] : m \in PermMaps}
DaysArgs == {[given |-> FALSE, days |-> 0]}
            \cup {[given |-> TRUE, days |-> d] : d \in 0..MaxDays}

Tokens == 1..MaxKeys
\* Tokens a caller may present: issued ones and ones not issued (yet).
TokenInputs == 1..MaxKeys

\* auth.py:46  `if expires_days:`  None and 0 are both falsy.
expires_at_of(arg, t) ==
    IF arg.given /\ arg.days # 0 THEN t + arg.days ELSE NoExpiry

\* auth.py:54  `permissions or {"browseruse": True}`  None and {} are falsy.
permissions_of(arg) ==
    IF arg.given /\ DOMAIN arg.map # {} THEN arg.map
    ELSE [s \in {"browseruse"} |-> TRUE]

\* auth.py:49-55  the APIKey record create_api_key builds.
APIKey(key, name, days, perms, t) ==
    [ key |-> key,
      name |-> name,
      created_at |-> t,
      expires_at |-> expires_at_of(days, t),
      is_active |-> TRUE,
      permissions |-> permissions_of(perms) ]

\* auth.py:57  self.api_keys[key] = api_key
store_key(keys, k) ==
    [t \in DOMAIN keys \cup {k.key} |-> IF t = k.key THEN k ELSE keys[t]]

\* auth.py:76  `key_obj.expires_at and datetime.utcnow() > key_obj.expires_at`
is_expired(k, t) == k.expires_at # NoExpiry /\ t > k.expires_at

Unauthorized(detail) == [status |-> 401, detail |-> detail, key |-> NoToken]

\* auth.py:60-82  returns the stored key object or raises HTTPException(401).
validate_api_key(keys, tok, t) ==
    IF tok \notin DOMAIN keys THEN Unauthorized("Invalid API key")
    ELSE IF ~keys[tok].is_active THEN Unauthorized("API key is inactive")
    ELSE IF is_expired(keys[tok], t) THEN Unauthorized("API key has expired")
    ELSE [status |-> 200, detail |-> "", key |-> tok]

\* A faulty lookup, for comparison: one that defaults to True.
permissions_get_default_true(perms, service) ==
    IF service \in DOMAIN perms THEN perms[service] ELSE TRUE

\* auth.py:87  key_obj.permissions.get(service, False)
permissions_get(perms, service) ==
    IF service \in DOMAIN perms THEN perms[service] ELSE FALSE

\* A faulty check, for comparison: a lookup in the store that does not
\* validate the key first.
check_permission_unvalidated(keys, tok, service, t) ==
    IF tok \notin DOMAIN keys
    THEN [status |-> 401, detail |-> "Invalid API key", allowed |-> FALSE]
    ELSE [status |-> 200, detail |-> "",
          allowed |-> permissions_get(keys[tok].permissions, service)]

\* auth.py:84-87  the boolean, or the HTTPException validate_api_key raised.
check_permission(keys, tok, service, t) ==
    LET v == validate_api_key(keys, tok, t) IN
    IF v.status # 200
    THEN [status |-> v.status, detail |-> v.detail, allowed |-> FALSE]
    ELSE [status |-> 200, detail |-> "",
          allowed |-> permissions_get(keys[v.key].permissions, service)]

\* A faulty revoke, for comparison: one that flips the flag.
deactivate_toggle(k) == [k EXCEPT !.is_active = ~k.is_active]

\* auth.py:92  self.api_keys[api_key].is_active = False
deactivate(k) == [k EXCEPT !.is_active = FALSE]

\* A faulty revoke, for comparison: one that deletes the key.
revoke_store_delete(keys, tok) ==
    [t \in DOMAIN keys \ {tok} |-> keys[t]]

\* auth.py:89-94  the store after revoke_api_key(tok).
revoke_store(keys, tok) ==
    IF tok \in DOMAIN keys THEN [keys EXCEPT ![tok] = deactivate(keys[tok])]
    ELSE keys

\* A faulty return value, for comparison: True only when the key was active.
revoke_result_if_active(keys, tok) ==
    tok \in DOMAIN keys /\ keys[tok].is_active

\* auth.py:89-94  the value revoke_api_key(tok) returns.
revoke_result(keys, tok) == tok \in DOMAIN keys

NoDays == [given |-> FALSE, days |-> 0]
NoPerms == [given |-> FALSE, map |-> EmptyMap]

\* A record of one AuthManager call: its arguments, the status (401 when it
\* raised HTTPException) and the value it returned.
AuthCallWith(op, tok, service, status, value, days, perms) ==
    [op |-> op, tok |-> tok, service |-> service,
     status |-> status, value |-> value, days |-> days, perms |-> perms]
AuthCall(op, tok, service, status, value) ==
    AuthCallWith(op, tok, service, status, value, NoDays, NoPerms)

\* auth.py:29-35  AuthManager.__init__: empty store, then the default key.
AuthInit ==
    /\ api_keys = store_key(EmptyMap,
                            APIKey(1, "default",
                                   [given |-> TRUE, days |-> DefaultExpiresDays],
                                   [given |-> FALSE, map |-> EmptyMap], 0))
    /\ next_key = 2
    /\ now = 0
    /\ snapshot = {}
    /\ revoked = {}
    /\ auth_last = AuthCall("init", NoToken, "", 200, "")

\* auth.py:37-58
create_api_key(days, perms) ==
    /\ next_key <= MaxKeys
    /\ api_keys' = store_key(api_keys, APIKey(next_key, "key", days, perms, now))
    /\ next_key' = next_key + 1
    /\ auth_last' = AuthCallWith("create", next_key, "", 200, "", days, perms)
    /\ UNCHANGED <<now, snapshot, revoked>>
    /\ UNCHANGED svc_vars
    /\ RouterIdle

\* auth.py:60-82
ValidateApiKey(tok) ==
    /\ LET v == validate_api_key(api_keys, tok, now) IN
       auth_last' = AuthCall("validate", tok, "", v.status,
                             IF v.status = 200 THEN "key" ELSE v.detail)
    /\ UNCHANGED <<api_keys, next_key, now, snapshot, revoked>>
    /\ UNCHANGED svc_vars
    /\ RouterIdle

\* auth.py:84-87
CheckPermission(tok, service) ==
    /\ LET c == check_permission(api_keys, tok, service, now) IN
       auth_last' = AuthCall("check", tok, service, c.status,
                             IF c.status # 200 THEN c.detail
                             ELSE IF c.allowed THEN "True" ELSE "False")
    /\ UNCHANGED <<api_keys, next_key, now, snapshot, revoked>>
    /\ UNCHANGED svc_vars
    /\ RouterIdle

\* auth.py:89-94
RevokeApiKey(tok) ==
    /\ api_keys' = revoke_store(api_keys, tok)
    /\ revoked' = IF revoke_result(api_keys, tok) THEN revoked \cup {tok}
                  ELSE revoked
    /\ auth_last' = AuthCall("revoke", tok, "", 200,
                             IF revoke_result(api_keys, tok) THEN "True"
                             ELSE "False")
    /\ UNCHANGED <<next_key, now, snapshot>>
    /\ UNCHANGED svc_vars
    /\ RouterIdle

\* auth.py:98  what a dict returned by self.api_keys.copy() shows when it is
\* read: the copy is shallow, so its values are the stored APIKey objects.
snapshot_read(keys, snap) == [t \in snap |-> keys[t]]

\* auth.py:96-98  a shallow copy: the returned dict holds the tokens present
\* at the call and refers to the stored APIKey objects.
ListApiKeys ==
    /\ snapshot' = DOMAIN api_keys
    /\ auth_last' = AuthCall("list", NoToken, "", 200, "")
    /\ UNCHANGED <<api_keys, next_key, now, revoked>>
    /\ UNCHANGED svc_vars
    /\ RouterIdle

\* datetime.utcnow() advances between calls.
Tick ==
    /\ now < MaxTime
    /\ now' = now + 1
    /\ auth_last' = AuthCall("tick", NoToken, "", 200, "")
    /\ UNCHANGED <<api_keys, next_key, snapshot, revoked>>
    /\ UNCHANGED svc_vars
    /\ RouterIdle

\* ====================================================================
\* JWT helper (auth.py:100-128)
\* ====================================================================
\* In the token helper the clock is read in units of the configured
\* lifetime config.access_token_expire_minutes.

\* config.secret_key, and a key that is not the configured one.
secret_key == "secret"
ForgedKey == "forged"
\* timedelta(minutes=self.config.access_token_expire_minutes), a positive
\* lifetime: one unit of the clock.
access_token_expire == 1

\* Payloads a caller passes to create_access_token: mappings with or without
\* a field 'user' and with or without a field 'exp' of their own.
Payloads ==
    {[f \in D |-> IF f = "user" THEN "x" ELSE 0] : D \in SUBSET {"user", "exp"}}

\* auth.py:102-106  to_encode = data.copy(); to_encode.update({"exp": expire})
with_exp(d, t) ==
    [f \in DOMAIN d \cup {"exp"} |->
        IF f = "exp" THEN t + access_token_expire ELSE d[f]]

\* jwt.encode(claims, key, algorithm): the claims and a signature made with
\* the key over them.  format tells whether the string has the three
\* segments of a JWT.
jwt_encode(claims, key) ==
    [format |-> TRUE, claims |-> claims, sig |-> [key |-> key, over |-> claims]]

JwtError == [raised |-> TRUE, claims |-> [f \in {} |-> 0]]

\* For comparison: a decoder that does not verify the signature.
jwt_decode_unverified(tok, key, t) ==
    IF ~tok.format THEN JwtError
    ELSE IF "exp" \in DOMAIN tok.claims /\ tok.claims["exp"] < t THEN JwtError
    ELSE [raised |-> FALSE, claims |-> tok.claims]

\* jwt.decode(token, key, algorithms): raises JWTError for a malformed
\* token, for a signature that the key does not verify, and
\* (ExpiredSignatureError) for an 'exp' claim earlier than the current time.
jwt_decode(tok, key, t) ==
    IF ~tok.format THEN JwtError
    ELSE IF tok.sig # [key |-> key, over |-> tok.claims] THEN JwtError
    ELSE IF "exp" \in DOMAIN tok.claims /\ tok.claims["exp"] < t THEN JwtError
    ELSE [raised |-> FALSE, claims |-> tok.claims]

\* auth.py:100-113
create_access_token(d, t) == jwt_encode(with_exp(d, t), secret_key)

\* auth.py:115-128  the payload, or HTTPException(401) on JWTError.
verify_token(tok, t) ==
    LET r == jwt_decode(tok, secret_key, t) IN
    IF r.raised
    THEN [status |-> 401, detail |-> "Could not validate credentials",
          payload |-> r.claims]
    ELSE [status |-> 200, detail |-> "", payload |-> r.claims]

\* Claim sets a token may carry, and the tokens a caller may present: well
\* formed or not, signed with the configured key or another one, over the
\* claims the token carries or over other claims.
JwtClaims ==
    {[f \in D |-> IF f = "user" THEN "x" ELSE e] :
        D \in SUBSET {"user", "exp"}, e \in 0..(MaxTime + access_token_expire)}
JwtTokens ==
    {[format |-> fm, claims |-> c, sig |-> [key |-> k, over |-> c2]] :
        fm \in BOOLEAN, c \in JwtClaims, k \in {secret_key, ForgedKey},
        c2 \in JwtClaims}

\* auth.py:100-113
CreateAccessToken(d) ==
    /\ jwt_last' = JwtCall("create", d, 200, create_access_token(d, now))
    /\ auth_last' = AuthCall("create_access_token", NoToken, "", 200, "")
    /\ http_last' = NoResponse
    /\ UNCHANGED <<api_keys, next_key, now, snapshot, revoked>>
    /\ UNCHANGED svc_vars
    /\ UNCHANGED <<allow_localhost, owner, audit>>

\* auth.py:115-128
VerifyToken(tok) ==
    /\ LET v == verify_token(tok, now) IN
       /\ jwt_last' = JwtCall("verify", tok, v.status, v.payload)
       /\ auth_last' = AuthCall("verify_token", NoToken, "", v.status, v.detail)
    /\ http_last' = NoResponse
    /\ UNCHANGED <<api_keys, next_key, now, snapshot, revoked>>
    /\ UNCHANGED svc_vars
    /\ UNCHANGED <<allow_localhost, owner, audit>>

\* ====================================================================
\* BrowseruseService and BrowserSession
\* ====================================================================

Tasks == 1..NumTasks
SessionIds == 1..MaxIds
\* Session ids a caller may present; NoSid is an absent (None) session_id.
SidInputs == 0..MaxIds

\* get_tools(): the tool vocabulary, browseruse_service.py:182-303.
ToolNames == {"create_session", "navigate", "get_page_info", "find_elements",
              "click_element", "type_text", "take_screenshot", "close_session"}
\* The tools that operate on a session's driver, call_tool lines 325-351.
DriverTools == ToolNames \ {"create_session", "close_session"}
\* Names a caller may send: the vocabulary and one name outside it
\* (.github/scripts/integration_test.py:31 calls 'observe').
ToolInputs == ToolNames \cup {"observe"}

\* BrowserSession fields after a successful start(), lines 39-41.
\* driver: "live"  a handle to a running browser
\*         "dead"  a handle (not None) whose browser has been quit
\*         "none"  None
StartedSession == [driver |-> "live", is_active |-> TRUE]

\* For comparison: a handler that lets every exception but RuntimeError
\* leave call_tool ("raised": the exception propagated to the caller).
catch_runtime_error_only(out) ==
    IF ~out.raised THEN out.res
    ELSE IF out.msg = "Browser session not started" THEN [error |-> out.msg, status |-> "", session_id |-> 0]
    ELSE [error |-> out.msg, status |-> "raised", session_id |-> 0]

\* For comparison: a start() that awaits the browser and so yields the
\* event loop to the other tasks.
start_yields == TRUE

\* BrowserSession.start, lines 28-41: the body holds no await expression, so
\* `await session.start()` runs to completion without handing control back
\* to the event loop.
start_suspends == FALSE

\* A faulty capacity test, for comparison: off by one.
at_capacity_above(sess) == Cardinality(DOMAIN sess) > max_sessions

\* _create_session line 363: `len(self.sessions) >= self.max_sessions`
at_capacity(sess) == Cardinality(DOMAIN sess) >= max_sessions

\* A faulty guard, for comparison: one that only tests for an absent id.
no_session_absent_only(sess, sid) == sid = NoSid

\* call_tool line 317: `not session_id or session_id not in self.sessions`
no_session(sess, sid) == sid = NoSid \/ sid \notin DOMAIN sess

\* The result mapping of call_tool; error = "" stands for a mapping without
\* the key 'error'.
Result(error, status, sid) ==
    [error |-> error, status |-> status, session_id |-> sid]

ErrNoActive == "No active session. Create a session first."
ErrNotFound == "Session not found"
ErrCapacity == "Maximum sessions (N) reached"
ErrNotStarted == "Browser session not started"
ErrUnknownTool == "Unknown tool: <name>"
ErrDriver == "<driver exception>"

\* What the body of call_tool's try block did: returned a mapping, or raised
\* an exception with a message.
Returned(res) == [raised |-> FALSE, msg |-> "", res |-> res]
Raised(msg) == [raised |-> TRUE, msg |-> msg, res |-> Result("", "", NoSid)]

\* call_tool lines 357-359: `except Exception as e: return {"error": str(e)}`
catch_exception(out) ==
    IF out.raised THEN Result(out.msg, "", NoSid) ELSE out.res

\* BrowserSession.stop, lines 43-48.  quit is what driver.quit() did:
\* "ok", or it raised leaving the browser alive ("raise_live") or gone
\* ("raise_dead").  When it raises, lines 47-48 are not executed.
\* gone tells whether the call ended the session's browser process.
QuitOutcomes == {"ok", "raise_live", "raise_dead"}
session_stop(s, quit) ==
    IF s.driver = "none"
    THEN [raised |-> FALSE, gone |-> FALSE, s |-> [s EXCEPT !.is_active = FALSE]]
    ELSE IF quit = "ok"
         THEN [raised |-> FALSE, gone |-> TRUE,
               s |-> [driver |-> "none", is_active |-> FALSE]]
         ELSE [raised |-> TRUE, gone |-> quit = "raise_dead",
               s |-> [s EXCEPT !.driver = IF quit = "raise_live" THEN "live"
                                            ELSE "dead"]]

\* del self.sessions[session_id], line 389.
del_session(sess, sid) == [i \in DOMAIN sess \ {sid} |-> sess[i]]

\* For comparison: a registration that is lost.
put_session_dropped(sess, sid, s) == sess

\* self.sessions[session_id] = session, line 373.
put_session(sess, sid, s) ==
    [i \in DOMAIN sess \cup {sid} |-> IF i = sid THEN s ELSE sess[i]]

\* _close_session, lines 382-394: the registry afterwards and what the call
\* returned or raised.
close_session(sess, sid, quit) ==
    IF sid \notin DOMAIN sess
    THEN [sess |-> sess, gone |-> {},
          out |-> Returned(Result(ErrNotFound, "", NoSid))]
    ELSE LET st == session_stop(sess[sid], quit) IN
         IF st.raised
         THEN [sess |-> [sess EXCEPT ![sid] = st.s],
               gone |-> IF st.gone THEN {sid} ELSE {},
               out |-> Raised(ErrDriver)]
         ELSE [sess |-> del_session(sess, sid),
               gone |-> IF st.gone THEN {sid} ELSE {},
               out |-> Returned(Result("", "closed", sid))]

\* The session methods navigate .. take_screenshot, lines 50-155: each raises
\* RuntimeError when driver is None; otherwise the driver call, or the lookup
\* of a required argument, succeeds (ok) or raises.
driver_tool(s, ok) ==
    IF s.driver = "none" THEN Raised(ErrNotStarted)
    ELSE IF s.driver = "live" /\ ok THEN Returned(Result("", "success", NoSid))
    ELSE Raised(ErrDriver)

\* call_tool lines 316-355 for every tool but create_session: the registry
\* afterwards and the outcome of the try block.
dispatch(sess, tool, sid, ok, quit) ==
    IF no_session(sess, sid)
    THEN [sess |-> sess, gone |-> {},
          out |-> Returned(Result(ErrNoActive, "", sid))]
    ELSE IF sid \notin DOMAIN sess
    THEN [sess |-> sess, gone |-> {}, out |-> Raised("KeyError")]
    ELSE IF tool \in DriverTools
    THEN [sess |-> sess, gone |-> {}, out |-> driver_tool(sess[sid], ok)]
    ELSE IF tool = "close_session"
    THEN close_session(sess, sid, quit)
    ELSE [sess |-> sess, gone |-> {},
          out |-> Returned(Result(ErrUnknownTool, "", NoSid))]

Call(tool, sid, res) == [tool |-> tool, session_id |-> sid, result |-> res]

\* BaseMCPService.__init__ (base.py:14-17) and BrowseruseService.__init__
\* (lines 161-166).
SvcInit ==
    /\ sessions = EmptyMap
    /\ next_sid = 1
    /\ is_running = FALSE
    /\ pc = [t \in Tasks |-> "idle"]
    /\ running = 0
    /\ call_last = Call("init", NoSid, Result("", "", NoSid))
    /\ browsers = {}

\* call_tool('create_session') up to `await session.start()`: lines 313-314
\* and 363-371.
CreateCheck(t) ==
    /\ running = 0
    /\ pc[t] = "idle"
    /\ at_capacity(sessions) \/ next_sid <= MaxIds
    /\ IF at_capacity(sessions)
       THEN /\ call_last' = Call("create_session", NoSid,
                                 catch_exception(Returned(Result(ErrCapacity, "", NoSid))))
            /\ UNCHANGED <<pc, running>>
       ELSE /\ pc' = [pc EXCEPT ![t] = "starting"]
            /\ running' = IF start_suspends THEN 0 ELSE t
            /\ call_last' = Call("create_session", NoSid, Result("", "pending", NoSid))
    /\ UNCHANGED <<sessions, next_sid, is_running, browsers>>
    /\ UNCHANGED auth_vars
    /\ RouterIdle

\* call_tool('create_session') from the completion of session.start():
\* lines 371-380, and 357-359 when start() raised.
CreateRegister(t, started) ==
    /\ pc[t] = "starting"
    /\ running \in {0, t}
    /\ pc' = [pc EXCEPT ![t] = "idle"]
    /\ running' = 0
    /\ IF started
       THEN /\ sessions' = put_session(sessions, next_sid, StartedSession)
            /\ browsers' = browsers \cup {next_sid}
            /\ next_sid' = next_sid + 1
            /\ call_last' = Call("create_session", NoSid,
                                 catch_exception(Returned(Result("", "created", next_sid))))
       ELSE /\ call_last' = Call("create_session", NoSid,
                                 catch_exception(Raised(ErrDriver)))
            /\ UNCHANGED <<sessions, next_sid, browsers>>
    /\ UNCHANGED is_running
    /\ UNCHANGED auth_vars
    /\ RouterIdle

\* call_tool for every other tool name, lines 305-359.  ok is read by the
\* driver tools only and quit by close_session only; the other calls fix them.
CallTool(tool, sid, ok, quit) ==
    /\ running = 0
    /\ tool # "create_session"
    /\ tool \in DriverTools \/ ok
    /\ tool = "close_session" \/ quit = "ok"
    /\ LET d == dispatch(sessions, tool, sid, ok, quit) IN
       /\ sessions' = d.sess
       /\ browsers' = browsers \ d.gone
       /\ call_last' = Call(tool, sid, catch_exception(d.out))
    /\ UNCHANGED <<next_sid, is_running, pc, running>>
    /\ UNCHANGED auth_vars
    /\ RouterIdle

\* BrowseruseService.start, lines 168-171.
ServiceStart ==
    /\ running = 0
    /\ is_running' = TRUE
    /\ call_last' = Call("start", NoSid, Result("", "", NoSid))
    /\ UNCHANGED <<sessions, next_sid, pc, running, browsers>>
    /\ UNCHANGED auth_vars
    /\ RouterIdle

\* BrowseruseService.stop, lines 173-180.  The loop visits the sessions in
\* insertion order, which is the order of their ids.  fail is the first
\* session whose driver.quit() raises (NoSid: none does): the exception
\* leaves stop() there, before lines 178-179.
stop_sessions(sess, fail, quit) ==
    [i \in DOMAIN sess |->
        IF fail = NoSid \/ i < fail THEN session_stop(sess[i], "ok").s
        ELSE IF i = fail THEN session_stop(sess[i], quit).s
        ELSE sess[i]]

\* For comparison: a stop() that releases the registry without quitting.
stop_gone_nothing(sess, fail, quit) == {}

\* The sessions whose browser process the loop of lines 176-177 ended.
stop_gone(sess, fail, quit) ==
    {i \in DOMAIN sess :
        IF fail = NoSid \/ i < fail THEN session_stop(sess[i], "ok").gone
        ELSE i = fail /\ session_stop(sess[i], quit).gone}

\* base.py:44-46
health_check(run) == IF run THEN "healthy" ELSE "stopped"

\* The record of a stop() call: session_id is the number of sessions that
\* were registered when it was called; the result is "stopped", or "raised"
\* with the id of the session whose driver.quit() raised.
ServiceStop(fail, quit) ==
    /\ running = 0
    /\ fail = NoSid \/ (fail \in DOMAIN sessions /\ sessions[fail].driver # "none"
                        /\ quit # "ok")
    /\ fail # NoSid \/ quit = "ok"
    /\ browsers' = browsers \ stop_gone(sessions, fail, quit)
    /\ IF fail = NoSid
       THEN /\ sessions' = EmptyMap
            /\ is_running' = FALSE
            /\ call_last' = Call("stop", Cardinality(DOMAIN sessions),
                                 Result("", "stopped", NoSid))
       ELSE /\ sessions' = stop_sessions(sessions, fail, quit)
            /\ call_last' = Call("stop", Cardinality(DOMAIN sessions),
                                 Result(ErrDriver, "raised", fail))
            /\ UNCHANGED is_running
    /\ UNCHANGED <<next_sid, pc, running>>
    /\ UNCHANGED auth_vars
    /\ RouterIdle

\* ====================================================================
\* REST router (api/routes.py)
\* ====================================================================

\* request.client.host: the address of the transport peer; NoPeer when
\* request.client is None.
NoPeer == ""
Loopback == "127.0.0.1"
Remote == "203.0.113.7"
PeerAddrs == {Loopback, Remote, NoPeer}

\* Values of a header the client chooses freely (X-Forwarded-For, X-Real-IP):
\* not sent, or naming the loopback address.
ForwardedValues == {"", Loopback}

\* The token of the key that stands for a localhost caller.  It is not a
\* value of the key store and not a value a client presents as a bearer
\* token (the bypass is for requests that supply no token).
LocalhostToken == -1

\* The Authorization header: present = FALSE is Header(None); words is the
\* result of authorization.split().
NoHeader == [present |-> FALSE, words |-> <<>>]
BearerHeader(tok) == [present |-> TRUE, words |-> <<"Bearer", tok>>]
AuthHeaders ==
    {NoHeader, [present |-> TRUE, words |-> <<>>]}
    \cup {BearerHeader(tok) : tok \in TokenInputs}
    \cup {[present |-> TRUE, words |-> <<"bearer", 1>>],
          [present |-> TRUE, words |-> <<"Basic", 1>>],
          [present |-> TRUE, words |-> <<"Bearer">>],
          [present |-> TRUE, words |-> <<"Bearer", 1, 1>>]}

\* routes.py:37  `not authorization`: None and "" are both falsy.
no_authorization(hdr) == ~hdr.present \/ hdr.words = <<>>

\* str.lower() on the scheme word.
lower(w) ==
    IF w = "Bearer" THEN "bearer" ELSE IF w = "Basic" THEN "basic" ELSE w

\* AuthManager._is_localhost: the loopback address counts as localhost.
is_localhost(ip) == ip = Loopback

\* AuthManager._create_localhost_api_key: a key object granting every
\* service, built on the fly and never put into api_keys.
localhost_api_key ==
    [ key |-> LocalhostToken,
      name |-> "localhost",
      created_at |-> 0,
      expires_at |-> NoExpiry,
      is_active |-> TRUE,
      permissions |-> [s \in Services |-> TRUE] ]

\* For comparison: a peer address taken from a header the client supplies.
client_ip_forwarded(peer, fwd) == IF fwd # "" THEN fwd ELSE peer

\* routes.py:34  client_ip = request.client.host if request.client else None
client_ip(peer, fwd) == peer

\* routes.py:38  the test that lets a request without a token through.
localhost_allowed(allow, ip) == ip # NoPeer /\ allow /\ is_localhost(ip)

\* validate_api_key(token, client_ip): the synthetic key is returned, without
\* consulting the store, for the localhost key's token on the bypass path;
\* every other token is looked up as in auth.py:60-82.
validate_api_key_ip(keys, allow, tok, ip, t) ==
    IF tok = LocalhostToken /\ localhost_allowed(allow, ip)
    THEN [status |-> 200, detail |-> "", key |-> LocalhostToken]
    ELSE validate_api_key(keys, tok, t)

\* The APIKey object a validated token stands for.
key_object(keys, tok) ==
    IF tok = LocalhostToken THEN localhost_api_key ELSE keys[tok]

\* check_permission(token, service, client_ip): validate, then the lookup of
\* auth.py:87 in the permissions of the key validate returned.
check_permission_ip(keys, allow, tok, service, ip, t) ==
    LET v == validate_api_key_ip(keys, allow, tok, ip, t) IN
    IF v.status # 200
    THEN [status |-> v.status, detail |-> v.detail, allowed |-> FALSE]
    ELSE [status |-> 200, detail |-> "",
          allowed |-> permissions_get(key_object(keys, v.key).permissions,
                                      service)]

\* For comparison: a dependency that never lets a request without a header in.
get_current_api_key_header_only(keys, allow, hdr, ip, t) ==
    IF no_authorization(hdr) THEN Unauthorized("Authorization header required")
    ELSE IF Len(hdr.words) # 2 \/ lower(hdr.words[1]) # "bearer"
    THEN Unauthorized("Invalid authorization header format")
    ELSE validate_api_key_ip(keys, allow, hdr.words[2], ip, t)

\* For comparison: a dependency that falls back to the localhost key when the
\* header does not yield a usable key.
get_current_api_key_fallback(keys, allow, hdr, ip, t) ==
    IF localhost_allowed(allow, ip)
    THEN [status |-> 200, detail |-> "", key |-> LocalhostToken]
    ELSE get_current_api_key_header_only(keys, allow, hdr, ip, t)

\* routes.py:28-57  the key the request is authenticated as, or the 401.
get_current_api_key(keys, allow, hdr, ip, t) ==
    IF no_authorization(hdr)
    THEN IF localhost_allowed(allow, ip)
         THEN [status |-> 200, detail |-> "", key |-> LocalhostToken]
         ELSE Unauthorized("Authorization header required")
    ELSE IF Len(hdr.words) # 2 \/ lower(hdr.words[1]) # "bearer"
    THEN Unauthorized("Invalid authorization header format")
    ELSE validate_api_key_ip(keys, allow, hdr.words[2], ip, t)

\* mcp_registry.get_service(name): the browseruse service while it is
\* running; no other service is registered.
get_service(run, service) == service = "browseruse" /\ run

\* For comparison: a permission gate that lets every validated key through.
authorize_any_key(keys, allow, hdr, ip, service, run, t) ==
    LET k == get_current_api_key(keys, allow, hdr, ip, t) IN
    IF k.status # 200 THEN k
    ELSE IF ~get_service(run, service)
    THEN [status |-> 404, detail |-> "Service not found or not running", key |-> k.key]
    ELSE k

\* For comparison: a gate that answers every key that may not use the
\* service as unauthenticated.
authorize_always_401(keys, allow, hdr, ip, service, run, t) ==
    LET k == get_current_api_key(keys, allow, hdr, ip, t)
        c == check_permission_ip(keys, allow, k.key, service, ip, t)
    IN  IF k.status # 200 THEN k
        ELSE IF c.status # 200 \/ ~c.allowed
        THEN Unauthorized("No permission for service")
        ELSE IF ~get_service(run, service)
        THEN [status |-> 404, detail |-> "Service not found or not running", key |-> k.key]
        ELSE k

\* For comparison: a gate that lets only the default key use a service.
authorize_default_key_only(keys, allow, hdr, ip, service, run, t) ==
    LET k == get_current_api_key(keys, allow, hdr, ip, t)
        c == check_permission_ip(keys, allow, k.key, service, ip, t)
    IN  IF k.status # 200 THEN k
        ELSE IF c.status # 200 THEN Unauthorized(c.detail)
        ELSE IF ~c.allowed \/ k.key # 1
        THEN [status |-> 403, detail |-> "No permission for service", key |-> k.key]
        ELSE IF ~get_service(run, service)
        THEN [status |-> 404, detail |-> "Service not found or not running", key |-> k.key]
        ELSE k

\* routes.py:28-57 with 163-177 (and 135-149): what stands between a request
\* and the service: the 401 of the dependency or of check_permission, the 403
\* of a key without the permission, the 404 of a service that is not
\* running, or 200 with the key the request acts as.
authorize(keys, allow, hdr, ip, service, run, t) ==
    LET k == get_current_api_key(keys, allow, hdr, ip, t)
        c == check_permission_ip(keys, allow, k.key, service, ip, t)
    IN  IF k.status # 200 THEN k
        ELSE IF c.status # 200 THEN Unauthorized(c.detail)
        ELSE IF ~c.allowed
        THEN [status |-> 403, detail |-> "No permission for service", key |-> k.key]
        ELSE IF ~get_service(run, service)
        THEN [status |-> 404, detail |-> "Service not found or not running", key |-> k.key]
        ELSE k

\* browseruse_service.py:361-380 as one step: session.start() does not
\* suspend, so nothing runs between the capacity test and the registration.
create_session(sess, nsid, started) ==
    IF at_capacity(sess)
    THEN [sess |-> sess, next |-> nsid, born |-> {}, gone |-> {},
          out |-> Returned(Result(ErrCapacity, "", NoSid))]
    ELSE IF ~started
    THEN [sess |-> sess, next |-> nsid, born |-> {}, gone |-> {},
          out |-> Raised(ErrDriver)]
    ELSE [sess |-> put_session(sess, nsid, StartedSession), next |-> nsid + 1,
          born |-> {nsid}, gone |-> {},
          out |-> Returned(Result("", "created", nsid))]

\* browseruse_service.py:305-359  one whole call of call_tool: the registry
\* after it, the browsers it started and ended, and the mapping it returns.
call_tool(sess, nsid, tool, sid, started, ok, quit) ==
    LET r == IF tool = "create_session"
             THEN create_session(sess, nsid, started)
             ELSE LET d == dispatch(sess, tool, sid, ok, quit) IN
                  [sess |-> d.sess, next |-> nsid, born |-> {},
                   gone |-> d.gone, out |-> d.out]
    IN  [sess |-> r.sess, next |-> r.next, born |-> r.born, gone |-> r.gone,
         out |-> Returned(catch_exception(r.out))]

\* The response to a request that raised HTTPException.
Rejected(route, a) ==
    Response(route, a.status, a.detail, FALSE, "", FALSE, NoToken)

\* For comparison: a router that answers a failed tool with a server error.
tool_call_response_http_error(out, key) ==
    IF out.raised \/ out.res.error # ""
    THEN Response("call", 500, "Internal Server Error", FALSE, "", TRUE, key)
    ELSE Response("call", 200, "", TRUE, "", TRUE, key)

\* routes.py:179-207  the ToolCallResponse built from what call_tool
\* returned (`"error" in result` or not) or raised.
tool_call_response(out, key) ==
    IF out.raised THEN Response("call", 200, "", FALSE, out.msg, TRUE, key)
    ELSE IF out.res.error # ""
    THEN Response("call", 200, "", FALSE, out.res.error, TRUE, key)
    ELSE Response("call", 200, "", TRUE, "", TRUE, key)

\* What a handler leaves behind: the key store, the session registry, the
\* browsers it started and ended, and its response.
Outcome(keys, nkey, sess, nsid, born, gone, resp) ==
    [keys |-> keys, next_key |-> nkey, sess |-> sess, next_sid |-> nsid,
     born |-> born, gone |-> gone, resp |-> resp]

\* POST /services/{service_name}/call, routes.py:154-207.
call_service_tool(keys, nkey, allow, t, sess, nsid, run, hdr, ip, service, c) ==
    LET a == authorize(keys, allow, hdr, ip, service, run, t)
        r == call_tool(sess, nsid, c.tool, c.sid, c.started, c.ok, "ok")
    IN  IF a.status # 200
        THEN Outcome(keys, nkey, sess, nsid, {}, {}, Rejected("call", a))
        ELSE Outcome(keys, nkey, r.sess, r.next, r.born, r.gone,
                     tool_call_response(r.out, a.key))

\* GET /services/{service_name}/tools, routes.py:127-152.
list_service_tools(keys, nkey, allow, t, sess, nsid, run, hdr, ip, service) ==
    LET a == authorize(keys, allow, hdr, ip, service, run, t) IN
    Outcome(keys, nkey, sess, nsid, {}, {},
            IF a.status # 200 THEN Rejected("tools", a)
            ELSE Response("tools", 200, "", TRUE, "", FALSE, a.key))

\* POST /auth/keys, routes.py:59-77: any authenticated request creates a key.
create_api_key_route(keys, nkey, allow, t, sess, nsid, hdr, ip, days, perms) ==
    LET k == get_current_api_key(keys, allow, hdr, ip, t) IN
    IF k.status # 200
    THEN Outcome(keys, nkey, sess, nsid, {}, {}, Rejected("create_key", k))
    ELSE Outcome(store_key(keys, APIKey(nkey, "key", days, perms, t)), nkey + 1,
                 sess, nsid, {}, {},
                 Response("create_key", 200, "", TRUE, "", FALSE, k.key))

\* GET /auth/keys, GET /services and GET /services/{name}/status
\* (routes.py:79-125, 209-215): authenticated reads.
read_route(keys, nkey, allow, t, sess, nsid, hdr, ip) ==
    LET k == get_current_api_key(keys, allow, hdr, ip, t) IN
    Outcome(keys, nkey, sess, nsid, {}, {},
            IF k.status # 200 THEN Rejected("read", k)
            ELSE Response("read", 200, "", TRUE, "", FALSE, k.key))

\* The bodies of POST /auth/keys requests: a key like the default one that
\* expires after a day, and a key without expiry for the other service.
KeyRequests ==
    { [days |-> [given |-> TRUE, days |-> 1], perms |-> NoPerms],
      [days |-> NoDays,
       perms |-> [given |-> TRUE, map |-> [s \in {"web_search"} |-> TRUE]]] }

\* What call_tool reads besides the registry: the tool, the session id, and
\* the outcome of the browser start or of the driver operation it performs.
ToolCases ==
    {[tool |-> "create_session", sid |-> NoSid, started |-> st, ok |-> TRUE] :
        st \in BOOLEAN}
    \cup {[tool |-> "navigate", sid |-> i, started |-> TRUE, ok |-> k] :
        i \in SidInputs, k \in BOOLEAN}
    \cup {[tool |-> "observe", sid |-> i, started |-> TRUE, ok |-> TRUE] :
        i \in SidInputs}

\* AuthConfig is read once, when the server starts.
RouterInit ==
    /\ allow_localhost \in BOOLEAN
    /\ http_last = NoResponse
    /\ jwt_last = NoJwtCall
    /\ owner = [i \in {} |-> NoToken]
    /\ audit = FALSE

\* A direct call that the step did not make.
NoAuthCall == AuthCall("none", NoToken, "", 200, "")
NoCall == Call("none", NoSid, Result("", "", NoSid))

\* The record of who created which session, after a request: the sessions
\* the request created are entered under the key it acted as.
owner_after(own, o) ==
    [i \in DOMAIN own \cup o.born |-> IF i \in o.born THEN o.resp.key ELSE own[i]]

\* The state a handler leaves behind.
Serve(o, peer) ==
    /\ running = 0
    /\ api_keys' = o.keys
    /\ next_key' = o.next_key
    /\ sessions' = o.sess
    /\ next_sid' = o.next_sid
    /\ browsers' = (browsers \cup o.born) \ o.gone
    /\ http_last' = [o.resp EXCEPT !.peer = peer]
    /\ auth_last' = NoAuthCall
    /\ call_last' = NoCall
    /\ jwt_last' = NoJwtCall
    /\ owner' = IF audit THEN owner_after(owner, o) ELSE owner
    /\ UNCHANGED <<now, snapshot, revoked, is_running, pc, running,
                   allow_localhost, audit>>

\* The four kinds of request, served on the current state.
CallOutcome(hdr, peer, fwd, service, tool, sid, started, ok) ==
    call_service_tool(api_keys, next_key, allow_localhost, now, sessions,
                      next_sid, is_running, hdr, client_ip(peer, fwd), service,
                      [tool |-> tool, sid |-> sid, started |-> started, ok |-> ok])
ToolsOutcome(hdr, peer, fwd, service) ==
    list_service_tools(api_keys, next_key, allow_localhost, now, sessions,
                       next_sid, is_running, hdr, client_ip(peer, fwd), service)
CreateKeyOutcome(hdr, peer, fwd, days, perms) ==
    create_api_key_route(api_keys, next_key, allow_localhost, now, sessions,
                         next_sid, hdr, client_ip(peer, fwd), days, perms)
ReadOutcome(hdr, peer, fwd) ==
    read_route(api_keys, next_key, allow_localhost, now, sessions, next_sid,
               hdr, client_ip(peer, fwd))

CallServiceTool(hdr, peer, fwd, service, tool, sid, started, ok) ==
    /\ tool = "create_session" => next_sid <= MaxIds
    /\ Serve(CallOutcome(hdr, peer, fwd, service, tool, sid, started, ok), peer)

ListServiceTools(hdr, peer, fwd, service) ==
    Serve(ToolsOutcome(hdr, peer, fwd, service), peer)

CreateApiKeyRoute(hdr, peer, fwd, days, perms) ==
    /\ next_key <= MaxKeys
    /\ Serve(CreateKeyOutcome(hdr, peer, fwd, days, perms), peer)

ReadRoute(hdr, peer, fwd) ==
    Serve(ReadOutcome(hdr, peer, fwd), peer)

\* ====================================================================
\* Specifications
\* ====================================================================

AuthNext ==
    \/ \E d \in DaysArgs, p \in PermArgs : create_api_key(d, p)
    \/ \E tok \in TokenInputs : ValidateApiKey(tok)
    \/ \E tok \in TokenInputs, s \in Services : CheckPermission(tok, s)
    \/ \E tok \in TokenInputs : RevokeApiKey(tok)
    \/ ListApiKeys
    \/ Tick

SvcNext ==
    \/ \E t \in Tasks : CreateCheck(t)
    \/ \E t \in Tasks, started \in BOOLEAN : CreateRegister(t, started)
    \/ \E tool \in ToolInputs, sid \in SidInputs, ok \in BOOLEAN,
          quit \in QuitOutcomes : CallTool(tool, sid, ok, quit)
    \/ ServiceStart
    \/ \E fail \in SidInputs, quit \in QuitOutcomes : ServiceStop(fail, quit)

\* The requests a step draws from.  A header the handlers never read is
\* varied on the requests without an Authorization header only, and a
\* request with credentials comes from a known peer.
Requests ==
    {[hdr |-> NoHeader, peer |-> p, fwd |-> f] :
        p \in PeerAddrs, f \in ForwardedValues}
    \cup {[hdr |-> h, peer |-> p, fwd |-> ""] :
        h \in AuthHeaders \ {NoHeader}, p \in {Loopback, Remote}}

\* The request reaches the service, so that call_tool reads its inputs.
Reaches(q, service) ==
    ToolsOutcome(q.hdr, q.peer, q.fwd, service).resp.status = 200
Authenticated(q) == ReadOutcome(q.hdr, q.peer, q.fwd).resp.status = 200

\* The requests the router serves, the administrator's revocations, the
\* clock, and the start of the service by the registry.  A request that is
\* rejected reads neither its tool nor its body: they are fixed.
RouterNext ==
    \/ \E q \in Requests, service \in Services :
          \E c \in IF Reaches(q, service) THEN ToolCases
                   ELSE {[tool |-> "create_session", sid |-> NoSid,
                          started |-> TRUE, ok |-> TRUE]} :
             CallServiceTool(q.hdr, q.peer, q.fwd, service,
                             c.tool, c.sid, c.started, c.ok)
    \/ \E q \in Requests, service \in Services :
          ListServiceTools(q.hdr, q.peer, q.fwd, service)
    \/ \E q \in Requests :
          \E b \in IF Authenticated(q) THEN KeyRequests
                   ELSE {[days |-> NoDays, perms |-> NoPerms]} :
             CreateApiKeyRoute(q.hdr, q.peer, q.fwd, b.days, b.perms)
    \/ \E q \in Requests : ReadRoute(q.hdr, q.peer, q.fwd)
    \/ \E tok \in DOMAIN api_keys : RevokeApiKey(tok)
    \/ Tick
    \/ ServiceStart

Init == AuthInit /\ SvcInit /\ RouterInit

\* The router in front of the key manager and the browser service.
SpecRouter == Init /\ [][RouterNext]_vars

\* Without the router its configuration plays no part.
InitDirect == Init /\ allow_localhost = FALSE

\* The key manager alone.
SpecAuth == InitDirect /\ [][AuthNext]_vars

\* The browser service alone.
SpecSvc == InitDirect /\ [][SvcNext]_vars

\* The token helper of the key manager, and the clock.
JwtNext ==
    \/ \E d \in Payloads : CreateAccessToken(d)
    \/ \E tok \in JwtTokens : VerifyToken(tok)
    \/ Tick

SpecJwt == InitDirect /\ [][JwtNext]_vars

\* Callers that share the browser service: remote requests that present a
\* token, for the tools that create, use and close a session.
ShareCases ==
    {[tool |-> "create_session", sid |-> NoSid, started |-> TRUE, ok |-> TRUE]}
    \cup {[tool |-> t, sid |-> i, started |-> TRUE, ok |-> TRUE] :
            t \in {"navigate", "close_session"}, i \in SessionIds}

ShareNext ==
    \/ \E tok \in TokenInputs, c \in ShareCases :
          CallServiceTool(BearerHeader(tok), Remote, "", "browseruse",
                          c.tool, c.sid, c.started, c.ok)
    \/ \E b \in KeyRequests :
          CreateApiKeyRoute(BearerHeader(1), Remote, "", b.days, b.perms)
    \/ ServiceStart

\* The same construction, in a run that records who created each session.
InitShare ==
    /\ AuthInit
    /\ SvcInit
    /\ allow_localhost = FALSE
    /\ http_last = NoResponse
    /\ jwt_last = NoJwtCall
    /\ owner = [i \in {} |-> NoToken]
    /\ audit = TRUE

SpecShare == InitShare /\ [][ShareNext]_vars

Next == AuthNext \/ JwtNext \/ SvcNext \/ RouterNext \/ ShareNext

Spec == Init /\ [][Next]_vars

\* ====================================================================
\* Properties of the key manager (checked under SpecAuth)
\* ====================================================================

Stored(tok) == tok \in DOMAIN api_keys

\* Usable in the sense of the documented invariant: active, and no expiry or
\* now strictly before it.
UsableBefore(tok) ==
    /\ Stored(tok)
    /\ api_keys[tok].is_active
    /\ (api_keys[tok].expires_at = NoExpiry \/ now < api_keys[tok].expires_at)

\* Unusable: unknown, revoked, or its expiry has passed.
Unusable(tok) ==
    \/ ~Stored(tok)
    \/ ~api_keys[tok].is_active
    \/ (api_keys[tok].expires_at # NoExpiry /\ now > api_keys[tok].expires_at)

\* C3: validate_api_key(token) returns the stored key iff the token is in
\* the store, active, and its expiry is null or now < expiry; in every other
\* case (unknown, inactive, now >= expiry) it fails with 401.
C3_ValidateIffBeforeExpiry ==
    auth_last.op = "validate" =>
        IF UsableBefore(auth_last.tok)
        THEN auth_last.status = 200 /\ auth_last.value = "key"
        ELSE auth_last.status = 401

\* C4: once revoke_api_key(t) was called on a stored token t, validate_api_key
\* and check_permission fail with 401 for t ever after, and t stays inactive.
C4_RevokedStaysUnusable ==
    \A t \in revoked :
        /\ Stored(t) /\ ~api_keys[t].is_active
        /\ validate_api_key(api_keys, t, now).status = 401
        /\ \A s \in Services : check_permission(api_keys, t, s, now).status = 401
        /\ (auth_last.op \in {"validate", "check"} /\ auth_last.tok = t
               => auth_last.status = 401)

\* A revoked, unexpired key was validated after a later create_api_key.
C4_Witness ==
    /\ auth_last.op = "validate"
    /\ auth_last.tok \in revoked
    /\ auth_last.status = 401
    /\ ~is_expired(api_keys[auth_last.tok], now)
    /\ \E t \in DOMAIN api_keys : t > auth_last.tok

\* C5: revoke_api_key(t) returns False and changes nothing for a token never
\* issued; returns True for every stored token, inactive ones included; a
\* second revoke of the same token leaves the store as the first left it.
C5_RevokeResult ==
    [][auth_last'.op = "revoke" =>
        LET t == auth_last'.tok IN
        /\ ~Stored(t) => auth_last'.value = "False" /\ api_keys' = api_keys
        /\ Stored(t) => /\ auth_last'.value = "True"
                        /\ DOMAIN api_keys' = DOMAIN api_keys
                        /\ ~api_keys'[t].is_active
        /\ (auth_last.op = "revoke" /\ auth_last.tok = t) => api_keys' = api_keys
      ]_vars

\* revoke returned True on a key that is inactive.
C5_Witness ==
    /\ auth_last.op = "revoke"
    /\ auth_last.value = "True"
    /\ ~api_keys[auth_last.tok].is_active

\* C6: for a usable key, check_permission(key, s) is True iff the key's
\* permission map maps s to True; absent or False gives False.
C6_PermissionLookup ==
    (auth_last.op = "check" /\ ~Unusable(auth_last.tok)) =>
        LET perms == api_keys[auth_last.tok].permissions IN
        /\ auth_last.status = 200
        /\ auth_last.value \in {"True", "False"}
        /\ auth_last.value = "True" <=>
              (auth_last.service \in DOMAIN perms /\ perms[auth_last.service])

\* A key created with {browseruse: true} was refused 'web_search'.
C6_Witness ==
    /\ auth_last.op = "check"
    /\ auth_last.tok # 1
    /\ ~Unusable(auth_last.tok)
    /\ api_keys[auth_last.tok].permissions = [s \in {"browseruse"} |-> TRUE]
    /\ auth_last.service = "web_search"
    /\ auth_last.value = "False"

C8_CreateStoresGivenPermissions ==
    [][auth_last'.op = "create" =>
        LET t == auth_last'.tok IN
        /\ ~Stored(t)
        /\ t \in DOMAIN api_keys'
        /\ api_keys'[t].is_active
        /\ \A u \in DOMAIN api_keys : api_keys'[u] = api_keys[u]
        /\ IF auth_last'.perms.given
           THEN api_keys'[t].permissions = auth_last'.perms.map
           ELSE api_keys'[t].permissions = [s \in {"browseruse"} |-> TRUE]
      ]_vars

\* ====================================================================
\* Properties of the browser service (checked under SpecSvc)
\* ====================================================================

Count(sess) == Cardinality(DOMAIN sess)

\* The step completed a call_tool('create_session').
CreateReturned ==
    call_last'.tool = "create_session" /\ call_last'.result.status # "pending"

\* Ids that were registered once and are no longer.
Closed(sid) == sid \in 1..(next_sid - 1) /\ sid \notin DOMAIN sessions

\* C1: the registry never holds more than max_sessions sessions, whatever
\* the interleaving of create_session and close_session calls.
C1_SessionBound == Count(sessions) <= max_sessions

\* A create_session filled the registry to the bound.
C1_Witness ==
    /\ Count(sessions) = max_sessions
    /\ call_last.tool = "create_session"
    /\ call_last.result.status = "created"

\* C2 as stated: create_session succeeds and registers exactly one new
\* session iff fewer than max_sessions are registered when it is called; at
\* max_sessions it returns the capacity error, starts no browser and leaves
\* the registry unchanged.
C2_CreateIffBelowMax ==
    [][CreateReturned =>
        IF Count(sessions) < max_sessions
        THEN /\ call_last'.result.status = "created"
             /\ call_last'.result.error = ""
             /\ call_last'.result.session_id \notin DOMAIN sessions
             /\ DOMAIN sessions' = DOMAIN sessions \cup {call_last'.result.session_id}
             /\ \A i \in DOMAIN sessions : sessions'[i] = sessions[i]
        ELSE /\ call_last'.result.error = ErrCapacity
             /\ sessions' = sessions
             /\ pc' = pc
      ]_vars

\* C2 amended: below max_sessions create_session registers exactly one new
\* session when the browser starts, and returns a tool error leaving the
\* registry unchanged when the browser start fails; at max_sessions it
\* returns the capacity error, starts no browser and changes nothing.
C2_CreateBelowMaxUnlessStartFails ==
    [][CreateReturned =>
        IF Count(sessions) < max_sessions
        THEN \/ /\ call_last'.result.status = "created"
                /\ call_last'.result.error = ""
                /\ call_last'.result.session_id \notin DOMAIN sessions
                /\ DOMAIN sessions' = DOMAIN sessions \cup {call_last'.result.session_id}
                /\ \A i \in DOMAIN sessions : sessions'[i] = sessions[i]
             \/ /\ call_last'.result.error = ErrDriver
                /\ call_last'.result.status = ""
                /\ sessions' = sessions
        ELSE /\ call_last'.result.error = ErrCapacity
             /\ sessions' = sessions
             /\ pc' = pc
      ]_vars

\* More than max_sessions sessions have been created in all, so one was
\* closed and a later create succeeded; the registry is full again and a
\* create was refused with the capacity error.
C2_Witness ==
    /\ call_last.tool = "create_session"
    /\ call_last.result.error = ErrCapacity
    /\ next_sid > max_sessions + 1
    /\ Count(sessions) = max_sessions

\* C9: for every tool but create_session, a call with a session_id that is
\* absent, never created or already closed returns the no-active-session
\* error mapping and leaves the registry and every session unchanged.
C9_NoActiveSession ==
    [][(/\ call_last'.tool \in ToolInputs \ {"create_session"}
        /\ call_last'.session_id = NoSid
           \/ call_last'.session_id \notin DOMAIN sessions)
       => /\ call_last'.result.error = ErrNoActive
          /\ call_last'.result.session_id = call_last'.session_id
          /\ sessions' = sessions
          /\ is_running' = is_running
      ]_vars

\* A driver tool was called on the id of a closed session.
C9_Witness ==
    /\ call_last.tool = "navigate"
    /\ Closed(call_last.session_id)
    /\ call_last.result.error = ErrNoActive

\* C10: a close_session that returns 'closed' removes the session, and a
\* second close_session on the same id returns the error "Session not found".
C10_SecondCloseNotFound ==
    [][call_last'.tool = "close_session" =>
        /\ call_last'.result.status = "closed"
              => /\ call_last'.session_id \in DOMAIN sessions
                 /\ call_last'.session_id \notin DOMAIN sessions'
        /\ (/\ call_last.tool = "close_session"
            /\ call_last.result.status = "closed"
            /\ call_last.session_id = call_last'.session_id)
              => call_last'.result.error = ErrNotFound
      ]_vars

\* C11: for a tool name outside the vocabulary call_tool returns exactly
\* {"error": "Unknown tool: <name>"}, whatever session_id comes with the call
\* (live, unknown or absent), and changes no state.
C11_UnknownToolAnySession ==
    [][(call_last'.tool \in ToolInputs /\ call_last'.tool \notin ToolNames)
       => /\ call_last'.result = Result(ErrUnknownTool, "", NoSid)
          /\ sessions' = sessions
          /\ browsers' = browsers
          /\ is_running' = is_running
      ]_vars

\* C12: when one session's driver.quit() raises during stop(), every other
\* session that was registered when stop() was called is shut down too.
C12_StopReachesEverySession ==
    [][(call_last'.tool = "stop" /\ call_last'.result.status = "raised")
       => \A i \in DOMAIN sessions \ {call_last'.result.session_id} :
              i \notin browsers'
      ]_vars

\* C13: a stop() in which no driver.quit() raises quits the browser of every
\* session registered at the call, then empties the registry and sets
\* is_running to false: health_check() reports 'stopped' and every issued
\* session id yields the no-active-session error.  The registry is emptied
\* and the flag cleared only then: a stop() that raised did neither.
C13_StopClosesAllThenStops ==
    [][call_last'.tool = "stop" =>
        IF call_last'.result.status = "stopped"
        THEN /\ \A i \in DOMAIN sessions : i \notin browsers'
             /\ sessions' = EmptyMap
             /\ ~is_running'
             /\ health_check(is_running') = "stopped"
             /\ \A sid \in 1..(next_sid' - 1), tool \in ToolInputs \ {"create_session"} :
                   catch_exception(dispatch(sessions', tool, sid, TRUE, "ok").out).error
                      = ErrNoActive
        ELSE /\ DOMAIN sessions' = DOMAIN sessions
             /\ is_running' = is_running
      ]_vars

\* stop() returned after shutting down a full registry of running browsers.
C13_Witness ==
    /\ call_last.tool = "stop"
    /\ call_last.result.status = "stopped"
    /\ call_last.session_id = max_sessions
    /\ browsers = {}
    /\ ~is_running

\* C14: whatever the driver or an argument lookup raises, call_tool returns a
\* mapping: either a result without 'error', or a mapping whose 'error' holds
\* the message; no exception leaves call_tool.
C14_CallToolNeverRaises ==
    call_last.tool \in ToolInputs =>
        /\ call_last.result.status # "raised"
        /\ \/ /\ call_last.result.error = ""
              /\ call_last.result.status \in {"created", "closed", "success", "pending"}
           \/ /\ call_last.result.error # ""
              /\ call_last.result.status = ""

\* A driver exception during navigate on a live session came back as the
\* 'error' of the result mapping.
C14_Witness ==
    /\ call_last.tool = "navigate"
    /\ call_last.session_id \in DOMAIN sessions
    /\ sessions[call_last.session_id].driver = "live"
    /\ call_last.result.error = ErrDriver
    /\ call_last.result.status = ""

\* ====================================================================
\* Properties of the router (checked under SpecRouter)
\* ====================================================================

\* Every request: header, peer address and the header the client is free to
\* set, in all combinations.
AllRequests ==
    {[hdr |-> h, peer |-> p, fwd |-> f] :
        h \in AuthHeaders, p \in PeerAddrs, f \in ForwardedValues}

\* The same without the freely set header.
PlainRequests == {q \in AllRequests : q.fwd = ""}

CallOf(q, service, c) ==
    CallOutcome(q.hdr, q.peer, q.fwd, service, c.tool, c.sid, c.started, c.ok)

\* The handler left the key store, the registry and the browsers alone.
Untouched(o) ==
    /\ o.keys = api_keys
    /\ o.next_key = next_key
    /\ o.sess = sessions
    /\ o.next_sid = next_sid
    /\ o.born = {}
    /\ o.gone = {}

\* The request is answered with the given status on every route, and changes
\* nothing.
AnsweredEverywhere(q, status) ==
    /\ ReadOutcome(q.hdr, q.peer, q.fwd).resp.status = status
    /\ Untouched(ReadOutcome(q.hdr, q.peer, q.fwd))
    /\ \A b \in KeyRequests :
          LET o == CreateKeyOutcome(q.hdr, q.peer, q.fwd, b.days, b.perms) IN
          o.resp.status = status /\ Untouched(o)
    /\ \A service \in Services :
          /\ ToolsOutcome(q.hdr, q.peer, q.fwd, service).resp.status = status
          /\ \A c \in ToolCases :
                LET o == CallOf(q, service, c) IN
                o.resp.status = status /\ ~o.resp.invoked /\ Untouched(o)

\* The header is a Bearer scheme followed by one token.
WellFormed(h) ==
    h.present /\ Len(h.words) = 2 /\ h.words[1] \in {"Bearer", "bearer"}

\* The key lacks the permission for the service.
Lacks(tok, service) ==
    service \notin DOMAIN api_keys[tok].permissions
    \/ ~api_keys[tok].permissions[service]

\* C15: with the bypass enabled, a request without an Authorization header
\* from the localhost peer is authenticated as the synthetic key, its tool
\* call passes the permission check for every service, and the key store is
\* the same after it: the synthetic key is never stored.
C15_LocalhostBypass ==
    /\ LocalhostToken \notin DOMAIN api_keys
    /\ allow_localhost =>
          \A fwd \in ForwardedValues, service \in Services, c \in ToolCases :
             LET ip == client_ip(Loopback, fwd)
                 k == get_current_api_key(api_keys, allow_localhost, NoHeader,
                                          ip, now)
                 p == check_permission_ip(api_keys, allow_localhost, k.key,
                                          service, ip, now)
                 o == CallOutcome(NoHeader, Loopback, fwd, service,
                                  c.tool, c.sid, c.started, c.ok)
             IN  /\ k.status = 200 /\ k.key = LocalhostToken
                 /\ p.status = 200 /\ p.allowed
                 /\ o.resp.status \notin {401, 403}
                 /\ get_service(is_running, service)
                       => o.resp.invoked /\ o.resp.key = LocalhostToken
                 /\ o.keys = api_keys /\ o.next_key = next_key

\* A tool call without credentials from localhost was served as the
\* synthetic key.
C15_Witness ==
    /\ allow_localhost
    /\ http_last.route = "call"
    /\ http_last.peer = Loopback
    /\ http_last.key = LocalhostToken
    /\ http_last.invoked
    /\ http_last.success

\* C16: a request without an Authorization header is answered 401 when its
\* peer address is not localhost or not known or the bypass is disabled,
\* whatever other header it carries; requests that differ in other headers
\* only get the same outcome; the rejected request invokes no tool and
\* changes no state.
C16_NoHeaderRejected ==
    \A q \in AllRequests :
       ~q.hdr.present =>
          /\ (q.peer # Loopback \/ ~allow_localhost) => AnsweredEverywhere(q, 401)
          /\ q.fwd # "" =>
                /\ ReadOutcome(q.hdr, q.peer, q.fwd) = ReadOutcome(q.hdr, q.peer, "")
                /\ \A service \in Services, c \in ToolCases :
                      CallOf(q, service, c) = CallOf([q EXCEPT !.fwd = ""], service, c)

\* With the bypass enabled, a request without credentials from another
\* address was rejected.
C16_Witness ==
    /\ allow_localhost
    /\ http_last.status = 401
    /\ http_last.detail = "Authorization header required"
    /\ http_last.peer = Remote
    /\ ~http_last.invoked

C19_ToolFailureIsNot_HttpError ==
    /\ \A q \in PlainRequests, service \in Services :
          ToolsOutcome(q.hdr, q.peer, q.fwd, service).resp.status = 200 =>
             \A c \in ToolCases :
                LET o == CallOf(q, service, c)
                    res == call_tool(sessions, next_sid, c.tool, c.sid,
                                     c.started, c.ok, "ok").out.res
                IN  /\ o.resp.status = 200
                    /\ o.resp.invoked
                    /\ o.resp.success = (res.error = "")
                    /\ o.resp.error = res.error
    /\ \A msg \in {ErrDriver, "KeyError"}, key \in DOMAIN api_keys :
          LET x == tool_call_response(Raised(msg), key) IN
          x.status = 200 /\ ~x.success /\ x.error = msg

\* A driver failure during navigate on a live session was answered 200 with
\* success false and the message.
C19_Witness ==
    /\ http_last.route = "call"
    /\ http_last.status = 200
    /\ http_last.invoked
    /\ ~http_last.success
    /\ http_last.error = ErrDriver
    /\ sessions # EmptyMap

\* C20: call_tool is invoked, and the session registry changed, only for a
\* request whose credential was validated and for which check_permission
\* returned true; a request answered 401 or 403 leaves the key store and the
\* session registry as they were.
C20_AuthorizedBeforeInvoked ==
    \A q \in PlainRequests :
       LET ip == client_ip(q.peer, q.fwd)
           k == get_current_api_key(api_keys, allow_localhost, q.hdr, ip, now)
           read == ReadOutcome(q.hdr, q.peer, q.fwd)
       IN  /\ read.resp.status \in {401, 403} => Untouched(read)
           /\ \A b \in KeyRequests :
                 LET o == CreateKeyOutcome(q.hdr, q.peer, q.fwd, b.days, b.perms) IN
                 o.resp.status \in {401, 403} => Untouched(o)
           /\ \A service \in Services :
                 LET p == check_permission_ip(api_keys, allow_localhost, k.key,
                                              service, ip, now)
                     tools == ToolsOutcome(q.hdr, q.peer, q.fwd, service)
                 IN  /\ tools.resp.status \in {401, 403} => Untouched(tools)
                     /\ \A c \in ToolCases :
                           LET o == CallOf(q, service, c) IN
                           /\ (o.resp.invoked \/ ~Untouched(o))
                                 => (k.status = 200 /\ p.status = 200 /\ p.allowed)
                           /\ o.resp.status \in {401, 403}
                                 => (~o.resp.invoked /\ Untouched(o))

\* A tool call with a revoked key was rejected while sessions were
\* registered.
C20_Witness ==
    /\ http_last.route = "call"
    /\ http_last.status = 401
    /\ http_last.detail = "API key is inactive"
    /\ ~http_last.invoked
    /\ sessions # EmptyMap

\* ====================================================================
\* Frame of the key store
\* ====================================================================

\* The attributes of a key that revoke_api_key does not write.
Fixed(k) == [k EXCEPT !.is_active = TRUE]

\* C21: a stored key is never removed and only its active flag ever changes;
\* revoke_api_key(t) leaves the set of tokens and every key other than t as
\* they were, and t itself inactive with its other attributes unchanged.
C21_KeysOnlyDeactivated ==
    [][ /\ \A tok \in DOMAIN api_keys :
              /\ tok \in DOMAIN api_keys'
              /\ Fixed(api_keys'[tok]) = Fixed(api_keys[tok])
        /\ auth_last'.op = "revoke" =>
              /\ DOMAIN api_keys' = DOMAIN api_keys
              /\ \A tok \in DOMAIN api_keys :
                    IF tok = auth_last'.tok
                    THEN ~api_keys'[tok].is_active
                    ELSE api_keys'[tok] = api_keys[tok] ]_vars

\* A key was revoked while the store held another key that is still active.
C21_Witness ==
    /\ auth_last.op = "revoke"
    /\ auth_last.value = "True"
    /\ ~api_keys[auth_last.tok].is_active
    /\ \E tok \in DOMAIN api_keys : tok # auth_last.tok /\ api_keys[tok].is_active

\* C22: list_api_keys returns the tokens in the store at the call, revoked
\* keys and the default key included, and leaves the store unchanged; a later
\* create_api_key or revoke_api_key does not alter what a snapshot returned
\* earlier shows.
C22_SnapshotUnaffected ==
    [][ /\ auth_last'.op = "list" =>
              /\ snapshot' = DOMAIN api_keys
              /\ 1 \in snapshot'
              /\ revoked \subseteq snapshot'
              /\ api_keys' = api_keys
        /\ auth_last'.op \in {"create", "revoke"} =>
              snapshot_read(api_keys', snapshot')
                 = snapshot_read(api_keys, snapshot) ]_vars

\* C24: a key created with expires_days supplied expires at its creation
\* time plus that many days; created with expires_days = 0 it has the
\* creation time as its expiry and validates at no later time.
C24_ExpiryIsCreationPlusDays ==
    (auth_last.op = "create" /\ auth_last.days.given) =>
       LET k == api_keys[auth_last.tok] IN
       /\ k.expires_at = k.created_at + auth_last.days.days
       /\ auth_last.days.days = 0 =>
             \A t \in (k.created_at + 1)..MaxTime :
                validate_api_key(api_keys, k.key, t).status = 401

\* ====================================================================
\* Failures of the browser handle
\* ====================================================================

\* A create_session call returns in this step after session.start() raised.
StartFailed ==
    /\ \E t \in Tasks : pc[t] = "starting" /\ pc'[t] = "idle"
    /\ call_last'.result.error # ""

\* C26: when the browser start fails, create_session returns an error
\* mapping that is not the capacity error and the registry and the id counter
\* stay as they were, so that the next create_session meets the same count;
\* a create_session that returns a session id has registered that id.
C26_FailedStartRegistersNothing ==
    [][ CreateReturned =>
          /\ StartFailed =>
                /\ call_last'.result.error \notin {"", ErrCapacity}
                /\ call_last'.result.session_id = NoSid
          /\ IF call_last'.result.error = ""
             THEN /\ call_last'.result.status = "created"
                  /\ call_last'.result.session_id \notin DOMAIN sessions
                  /\ DOMAIN sessions'
                        = DOMAIN sessions \cup {call_last'.result.session_id}
             ELSE /\ sessions' = sessions
                  /\ next_sid' = next_sid
                  /\ at_capacity(sessions') = at_capacity(sessions) ]_vars

\* A browser start failed while one session was registered, and the session
\* is still the only one.
C26_Witness ==
    /\ call_last.tool = "create_session"
    /\ call_last.result.error = ErrDriver
    /\ Count(sessions) = 1
    /\ next_sid = 2

\* C27: between operations every registered session is active and owns a
\* browser handle that has not been quit, and no tool call fails with
\* 'Browser session not started'.
C27_RegisteredSessionsLive ==
    (\A t \in Tasks : pc[t] = "idle") =>
       /\ \A sid \in DOMAIN sessions :
             sessions[sid].is_active /\ sessions[sid].driver = "live"
       /\ call_last.result.error # ErrNotStarted

\* C28: a close_session call for a registered id leaves the id out of the
\* registry, with one session fewer counted, whatever it returns.
C28_CloseAlwaysUnregisters ==
    [][ (call_last'.tool = "close_session"
           /\ call_last'.session_id \in DOMAIN sessions) =>
          /\ call_last'.session_id \notin DOMAIN sessions'
          /\ Count(sessions') = Count(sessions) - 1 ]_vars

\* C29: while is_running is false the registry is empty and no browser runs.
C29_StoppedMeansEmpty ==
    ~is_running => (DOMAIN sessions = {} /\ browsers = {})

\* ====================================================================
\* Keys made through the router
\* ====================================================================

\* The request a remote caller makes with the token as its credential.
RemoteWith(tok) == [hdr |-> BearerHeader(tok), peer |-> Remote, fwd |-> ""]

\* C30: a remote caller holding a usable key that does not grant service S
\* gets no tool of S invoked: not by a call with that key, and not by a call
\* with a key that a POST /auth/keys request made with that key returned.
C30_NoToolWithoutPermission ==
    \A tok \in DOMAIN api_keys, service \in Services :
       (UsableBefore(tok) /\ Lacks(tok, service)) =>
          /\ \A c \in ToolCases :
                ~CallOf(RemoteWith(tok), service, c).resp.invoked
          /\ \A b \in KeyRequests :
                LET o == CreateKeyOutcome(BearerHeader(tok), Remote, "",
                                          b.days, b.perms)
                IN  \A made \in DOMAIN o.keys \ DOMAIN api_keys, c \in ToolCases :
                       ~call_service_tool(o.keys, o.next_key, allow_localhost,
                                          now, sessions, next_sid, is_running,
                                          BearerHeader(made), Remote, service,
                                          c).resp.invoked

\* ====================================================================
\* Keys and sessions
\* ====================================================================

\* The key is usable and grants the browser service.
Permitted(tok) == UsableBefore(tok) /\ ~Lacks(tok, "browseruse")

\* The response without the key the request acted as.
Keyless(resp) == [resp EXCEPT !.key = NoToken]

\* C23: on a running service a session tool call made with any usable key
\* that grants the browser service does what call_tool does on the registry,
\* whichever key created the session: a registered session is closed by it,
\* and two such keys get the same response and leave the same registry.
C23_SessionsNotOwned ==
    is_running =>
       \A k1 \in DOMAIN api_keys :
          Permitted(k1) =>
             \A c \in ShareCases :
                LET o1 == CallOf(RemoteWith(k1), "browseruse", c)
                    r == call_tool(sessions, next_sid, c.tool, c.sid, c.started,
                                   c.ok, "ok")
                IN  /\ o1.resp.invoked
                    /\ o1.resp.status = 200
                    /\ o1.resp.success = (r.out.res.error = "")
                    /\ o1.sess = r.sess /\ o1.born = r.born /\ o1.gone = r.gone
                    /\ (c.tool # "create_session" /\ c.sid \in DOMAIN sessions)
                          => o1.resp.success
                    /\ (c.tool = "close_session" /\ c.sid \in DOMAIN sessions)
                          => c.sid \notin DOMAIN o1.sess
                    /\ \A k2 \in DOMAIN api_keys :
                          Permitted(k2) =>
                             LET o2 == CallOf(RemoteWith(k2), "browseruse", c) IN
                             /\ Keyless(o2.resp) = Keyless(o1.resp)
                             /\ o2.sess = o1.sess
                             /\ o2.born = o1.born
                             /\ o2.gone = o1.gone

\* The only session ever created was created with key 1, and a request with
\* key 2 has just closed it.
C23_Witness ==
    /\ next_sid = 2
    /\ 1 \in DOMAIN owner
    /\ owner[1] = 1
    /\ 1 \notin DOMAIN sessions
    /\ http_last.route = "call"
    /\ http_last.key = 2
    /\ http_last.invoked
    /\ http_last.success

\* ====================================================================
\* JWT round trip
\* ====================================================================

\* The token is rejected by construction: malformed, signed with another
\* key, signed over other claims than it carries, or expired.
Invalid(tok, t) ==
    \/ ~tok.format
    \/ tok.sig.key # secret_key
    \/ tok.sig.over # tok.claims
    \/ ("exp" \in DOMAIN tok.claims /\ tok.claims["exp"] < t)

====
